---- MODULE Spec2Model ----
(***************************************************************************)
(* json-chunks-to-embeddings: the provider factory, the three embedding    *)
(* providers and the batch dispatcher process_embeddings, driven either by *)
(* the script's main() or by a direct call of create_provider or           *)
(* process_embeddings.                                                     *)
(***************************************************************************)
EXTENDS Integers, Sequences, FiniteSets, TLC

VARIABLES entry, args, env, file, config, provider_name, provider, data,
          batch_size, pc, path, eff, i, batch, texts, embeddings, k, result,
          returned, error, exitStatus, outFile, genCalls, apiCalls,
          clientInits

vars == <<entry, args, env, file, config, provider_name, provider, data,
          batch_size, pc, path, eff, i, batch, texts, embeddings, k, result,
          returned, error, exitStatus, outFile, genCalls, apiCalls,
          clientInits>>

(***************************************************************************)
(* Bounds of the model.                                                    *)
(***************************************************************************)
\* longest record list enumerated in full (every content at every position)
MaxRecords == 3
\* largest explicit batch size requested
MaxBatch == 2
\* the long record lists hold DefaultBatchSize .. DefaultBatchSize + MaxExtra records
MaxExtra == 1

(***************************************************************************)
(* Program constants.                                                      *)
(***************************************************************************)
\* json_to_embeddings.py:96  batch_size = 100
DefaultBatchSize == 100

\* Python's None, where the value is otherwise a string
None == "<None>"

(***************************************************************************)
(* Python primitives on the values the model draws.                        *)
(***************************************************************************)
Min(a, b) == IF a <= b THEN a ELSE b

\* str.lower() on the provider names the model draws
Lower(s) ==
    CASE s = "OpenAI" -> "openai"
      [] s = "GEMINI" -> "gemini"
      [] OTHER -> s

\* str.upper() on the provider names the model draws
Upper(s) ==
    CASE s \in {"openai", "OpenAI"} -> "OPENAI"
      [] s \in {"gemini", "GEMINI"} -> "GEMINI"
      [] s = "anthropic" -> "ANTHROPIC"
      [] s = "foo" -> "FOO"
      [] s = "" -> ""
      [] OTHER -> s

\* str.strip() on the contents the model draws
Strip(s) == IF s = " " THEN "" ELSE s

\* int() on the BATCH_SIZE strings the model draws
ParseInt(s) ==
    CASE s = "0" -> 0
      [] s = "1" -> 1
      [] s = "2" -> 2
      [] s = "3" -> 3

\* dict.get(key): None for a missing key
DictGet(d, key) == IF key \in DOMAIN d THEN d[key] ELSE None

\* os.getenv(key, default)
GetEnv(e, key, default) == IF key \in DOMAIN e THEN e[key] ELSE default

\* truth value of a value that is a string or None
Truthy(v) == v \notin {None, ""}

\* data[lo:hi] for 0 <= lo
Slice(s, lo, hi) == SubSeq(s, lo + 1, Min(hi, Len(s)))

(***************************************************************************)
(* The remote embedding service: the vector it answers for a text.         *)
(***************************************************************************)
Embed(text) ==
    CASE text = "a" -> <<1>>
      [] text = "b" -> <<2>>
      [] OTHER -> <<0>>

EmbedAll(ts) == [j \in 1..Len(ts) |-> Embed(ts[j])]

(***************************************************************************)
(* Exceptions and provider objects.                                        *)
(***************************************************************************)
NoError == [type |-> "none", kind |-> "none", detail |-> <<>>]

Exc(type, kind, detail) == [type |-> type, kind |-> kind, detail |-> detail]

NoProvider == [cls |-> "none", api_key |-> None, model |-> None, client |-> FALSE]

\* BaseProvider.__init__: the client is not built at construction
NewProvider(cls, api_key, model) ==
    [cls |-> cls, api_key |-> api_key, model |-> model, client |-> FALSE]

\* ProviderFactory._providers, in insertion order
ProviderNames == <<"openai", "gemini", "anthropic">>

ProviderClass(name) ==
    CASE name = "openai" -> "OpenAIProvider"
      [] name = "gemini" -> "GeminiProvider"
      [] name = "anthropic" -> "AnthropicProvider"

Registered(name) == \E j \in 1..Len(ProviderNames) : ProviderNames[j] = name

\* `fragment in model` on the model names the model draws: none of them
\* properly contains one of the fragments the providers look for
Contains(model, fragment) == model = fragment

OpenAIDimensions(model) ==
    IF Contains(model, "text-embedding-3-large") THEN 3072
    ELSE IF Contains(model, "text-embedding-3-small") THEN 1536
    ELSE IF Contains(model, "text-embedding-ada-002") THEN 1536
    ELSE 1536

AnthropicDimensions(model) ==
    IF Contains(model, "text-embedding-3-large") THEN 3072
    ELSE IF Contains(model, "text-embedding-3-small") THEN 1536
    ELSE 1536

GeminiDimensions(model) ==
    IF Contains(model, "text-embedding-004") THEN 768
    ELSE IF Contains(model, "embedding-001") THEN 768
    ELSE 768

\* OpenAIProvider.get_model_info: the dict it returns (no supports_batch key)
OpenAIModelInfo(p) ==
    ("provider" :> "OpenAI") @@ ("model" :> p.model)
    @@ ("dimensions" :> OpenAIDimensions(p.model))

\* AnthropicProvider.get_model_info: the dict it returns (no supports_batch key)
AnthropicModelInfo(p) ==
    ("provider" :> "Anthropic") @@ ("model" :> p.model)
    @@ ("dimensions" :> AnthropicDimensions(p.model))

\* GeminiProvider.get_model_info: the dict it returns
GeminiModelInfo(p) ==
    ("provider" :> "Google Gemini") @@ ("model" :> p.model)
    @@ ("dimensions" :> GeminiDimensions(p.model))
    @@ ("batch_limit" :> 1) @@ ("supports_batch" :> FALSE)

\* get_model_info of a BaseProvider subclass outside the repository that
\* advertises batch support, the case process_embeddings' first branch serves
CustomModelInfo(p) ==
    ("provider" :> "Custom") @@ ("model" :> p.model)
    @@ ("dimensions" :> 1) @@ ("supports_batch" :> TRUE)

\* provider.get_model_info(), dispatched on the provider's class
get_model_info(p) ==
    CASE p.cls = "OpenAIProvider" -> OpenAIModelInfo(p)
      [] p.cls = "AnthropicProvider" -> AnthropicModelInfo(p)
      [] p.cls = "GeminiProvider" -> GeminiModelInfo(p)
      [] p.cls = "CustomProvider" -> CustomModelInfo(p)

\* model_info.get('supports_batch') taken as a condition
SupportsBatch(info) ==
    "supports_batch" \in DOMAIN info /\ info["supports_batch"] = TRUE

\* mutant of validate_texts: the texts are not stripped before the test
validate_texts_no_strip(ts) ==
    IF Len(ts) = 0
    THEN Exc("ValueError", "validation", <<"Text list cannot be empty">>)
    ELSE IF \E j \in 1..Len(ts) : ~Truthy(ts[j])
    THEN Exc("ValueError", "validation", <<"Text cannot be empty">>)
    ELSE NoError

\* BaseProvider.validate_texts: the error it raises, or NoError
validate_texts(ts) ==
    IF Len(ts) = 0
    THEN Exc("ValueError", "validation", <<"Text list cannot be empty">>)
    ELSE IF \E j \in 1..Len(ts) : ~Truthy(Strip(ts[j]))
    THEN LET first == CHOOSE j \in 1..Len(ts) :
                          /\ ~Truthy(Strip(ts[j]))
                          /\ \A h \in 1..(j - 1) : Truthy(Strip(ts[h]))
         IN Exc("ValueError", "validation",
                <<"Text cannot be empty", ToString(first - 1)>>)
    ELSE NoError

\* mutant of create_provider: the model name is not checked
create_provider_unchecked_model(name, cfg) ==
    LET lname == Lower(name)
        api_key == DictGet(cfg, Upper(lname) \o "_API_KEY")
        model == DictGet(cfg, Upper(lname) \o "_EMBEDDING_MODEL")
    IN IF ~Registered(lname)
       THEN [ok |-> FALSE, provider |-> NoProvider,
             error |-> Exc("ValueError", "unsupported", ProviderNames)]
       ELSE IF ~Truthy(api_key)
       THEN [ok |-> FALSE, provider |-> NoProvider,
             error |-> Exc("ValueError", "configuration", <<"API key", lname>>)]
       ELSE [ok |-> TRUE,
             provider |-> NewProvider(ProviderClass(lname), api_key, model),
             error |-> NoError]

\* ProviderFactory.create_provider: the provider it returns or the error it raises
create_provider(name, cfg) ==
    LET lname == Lower(name)
        api_key == DictGet(cfg, Upper(lname) \o "_API_KEY")
        model == DictGet(cfg, Upper(lname) \o "_EMBEDDING_MODEL")
    IN IF ~Registered(lname)
       THEN [ok |-> FALSE, provider |-> NoProvider,
             error |-> Exc("ValueError", "unsupported", ProviderNames)]
       ELSE IF ~Truthy(api_key)
       THEN [ok |-> FALSE, provider |-> NoProvider,
             error |-> Exc("ValueError", "configuration", <<"API key", lname>>)]
       ELSE IF ~Truthy(model)
       THEN [ok |-> FALSE, provider |-> NoProvider,
             error |-> Exc("ValueError", "configuration", <<"Model", lname>>)]
       ELSE [ok |-> TRUE,
             provider |-> NewProvider(ProviderClass(lname), api_key, model),
             error |-> NoError]

(***************************************************************************)
(* The dispatcher's pure parts.                                            *)
(***************************************************************************)
\* [item['content'] for item in batch]
ContentsOf(items) == [j \in 1..Len(items) |-> items[j].content]

\* item.copy() with item['embedding'] = embedding
WithEmbedding(item, embedding) ==
    [f \in DOMAIN item \cup {"embedding"} |->
        IF f = "embedding" THEN embedding ELSE item[f]]

\* mutant of ZipRecords: every record gets the first vector of the call
ZipRecordsFirst(items, embs) ==
    [j \in 1..Min(Len(items), Len(embs)) |-> WithEmbedding(items[j], embs[1])]

\* mutant of ZipRecords: a record without a vector is kept as it is
ZipRecordsPad(items, embs) ==
    [j \in 1..Len(items) |->
        IF j <= Len(embs) THEN WithEmbedding(items[j], embs[j]) ELSE items[j]]

\* the records appended by `for item, embedding in zip(batch, embeddings)`
ZipRecords(items, embs) ==
    [j \in 1..Min(Len(items), Len(embs)) |-> WithEmbedding(items[j], embs[j])]

\* mutant of EffectiveBatchSize: the default also replaces a batch size of 1
EffectiveBatchSizeOffByOne(n) == IF n <= 1 THEN DefaultBatchSize ELSE n

\* the batch size the chunk loop runs with
EffectiveBatchSize(n) == IF n <= 0 THEN DefaultBatchSize ELSE n

\* mutant of UseSingleCall: the capability flag is never found
UseSingleCallNever(info, n) == FALSE

\* line 78: whether everything goes into one generate_embeddings call
UseSingleCall(info, n) == SupportsBatch(info) /\ n = 0

\* load_environment: the config dict built from the environment
load_environment(e) ==
    ("AI_PROVIDER" :> GetEnv(e, "AI_PROVIDER", "gemini"))
    @@ ("OPENAI_API_KEY" :> GetEnv(e, "OPENAI_API_KEY", None))
    @@ ("OPENAI_EMBEDDING_MODEL" :>
            GetEnv(e, "OPENAI_EMBEDDING_MODEL", "text-embedding-ada-002"))
    @@ ("GEMINI_API_KEY" :> GetEnv(e, "GEMINI_API_KEY", None))
    @@ ("GEMINI_EMBEDDING_MODEL" :>
            GetEnv(e, "GEMINI_EMBEDDING_MODEL", "embedding-001"))
    @@ ("ANTHROPIC_API_KEY" :> GetEnv(e, "ANTHROPIC_API_KEY", None))
    @@ ("ANTHROPIC_EMBEDDING_MODEL" :>
            GetEnv(e, "ANTHROPIC_EMBEDDING_MODEL", "text-embedding-3-small"))
    @@ ("BATCH_SIZE" :> ParseInt(GetEnv(e, "BATCH_SIZE", "0")))

(***************************************************************************)
(* The inputs the model draws.                                             *)
(***************************************************************************)
\* the content strings of the records: two texts and a blank one
Contents == {"a", "b", " "}

Record(c) == [content |-> c, origin |-> "x"]

ShortData ==
    UNION {[1..n -> {Record(c) : c \in Contents}] : n \in 0..MaxRecords}

\* record lists longer than the default batch size: "a" everywhere but the
\* last record, which holds any content
LongData ==
    {[j \in 1..n |-> IF j = n THEN Record(c) ELSE Record("a")] :
        n \in DefaultBatchSize..(DefaultBatchSize + MaxExtra), c \in Contents}

\* records with a field besides content and origin (passed through), and a
\* record that already carries an embedding (a saved output read back)
ExtraData ==
    { << [content |-> "a", origin |-> "x", id |-> "7"],
         [content |-> "b", origin |-> "x", embedding |-> <<9>>] >> }

DataSets == ShortData \cup LongData \cup ExtraData

BatchSizes == {-1} \cup 0..MaxBatch

EmptyDict == [key \in {} |-> None]

AllKeys ==
    ("OPENAI_API_KEY" :> "sk") @@ ("GEMINI_API_KEY" :> "sk")
    @@ ("ANTHROPIC_API_KEY" :> "sk")

Envs ==
    { AllKeys,
      EmptyDict,
      AllKeys @@ ("AI_PROVIDER" :> "openai") @@ ("BATCH_SIZE" :> "1")
          @@ ("ANTHROPIC_EMBEDDING_MODEL" :> "") }

ArgSets ==
    [provider : {None, "OpenAI", "anthropic", "foo"},
     model : {None, "m"},
     batch_size : {<<>>} \cup {<<n>> : n \in BatchSizes}]

NoArgs == [provider |-> None, model |-> None, batch_size |-> <<>>]

\* the input file: absent, not JSON, JSON that is no array, an array with an
\* item that is no object with 'content' and 'origin', or an array of records
Files ==
    {[kind |-> f, items |-> <<>>] :
        f \in {"missing", "bad_json", "not_array", "bad_item"}}
    \cup {[kind |-> "array", items |-> d] : d \in DataSets}

NoFile == [kind |-> "none", items |-> <<>>]

NoOutFile == [kind |-> "absent", content |-> <<>>]

\* the providers a direct caller of process_embeddings passes
CallerProviders ==
    { NewProvider("OpenAIProvider", "sk", "text-embedding-ada-002"),
      NewProvider("GeminiProvider", "sk", "embedding-001"),
      NewProvider("AnthropicProvider", "sk", "text-embedding-3-small"),
      NewProvider("CustomProvider", "sk", "m") }

\* the names and configs a direct caller of create_provider passes
CallerNames == {"openai", "OpenAI", "GEMINI", "anthropic", "foo", ""}

CallerConfigs(name) ==
    LET kk == Upper(Lower(name)) \o "_API_KEY"
        mk == Upper(Lower(name)) \o "_EMBEDDING_MODEL"
    IN { kd @@ md : kd \in {EmptyDict} \cup {kk :> v : v \in {None, "", "sk"}},
                    md \in {EmptyDict} \cup {mk :> v : v \in {None, "", "m"}} }

Locals ==
    /\ path = "none"
    /\ eff = 0
    /\ i = 0
    /\ batch = <<>>
    /\ texts = <<>>
    /\ embeddings = <<>>
    /\ k = 0
    /\ result = <<>>
    /\ returned = <<>>
    /\ error = NoError
    /\ exitStatus = -1
    /\ outFile = NoOutFile
    /\ genCalls = <<>>
    /\ apiCalls = <<>>
    /\ clientInits = 0

\* the script is run: python json_to_embeddings.py <file> [options]
InitMain ==
    /\ entry = "main"
    /\ pc = "main"
    /\ args \in ArgSets
    /\ env \in Envs
    /\ file \in Files
    /\ config = EmptyDict
    /\ provider_name = None
    /\ provider = NoProvider
    /\ data = <<>>
    /\ batch_size = 0

\* ProviderFactory.create_provider(name, config) is called directly
InitCreate ==
    /\ entry = "create_provider"
    /\ pc = "create"
    /\ args = NoArgs
    /\ env = EmptyDict
    /\ file = NoFile
    /\ provider_name \in CallerNames
    /\ config \in CallerConfigs(provider_name)
    /\ provider = NoProvider
    /\ data = <<>>
    /\ batch_size = 0

\* process_embeddings(provider, data, batch_size) is called directly
InitProcess ==
    /\ entry = "process_embeddings"
    /\ pc = "process"
    /\ args = NoArgs
    /\ env = EmptyDict
    /\ file = NoFile
    /\ config = EmptyDict
    /\ provider_name = None
    /\ provider \in CallerProviders
    /\ data \in DataSets
    /\ batch_size \in BatchSizes

Init == (InitMain \/ InitCreate \/ InitProcess) /\ Locals

(***************************************************************************)
(* Control flow shared by the actions.                                     *)
(***************************************************************************)
\* mutant of Raise: the error is noted and the loop goes on with what it has
RaiseAndContinue(e) ==
    /\ error' = e
    /\ pc' = "zip"
    /\ UNCHANGED exitStatus

\* an exception leaves the running function; main's `except Exception`
\* reports it and exits with status 1, a direct caller sees it raised
Raise(e) ==
    /\ error' = e
    /\ pc' = IF entry = "main" THEN "exit" ELSE "raised"
    /\ exitStatus' = IF entry = "main" THEN 1 ELSE exitStatus

\* process_embeddings returns value to its caller
Return(value) ==
    /\ returned' = value
    /\ pc' = IF entry = "main" THEN "save" ELSE "returned"
    /\ UNCHANGED <<error, exitStatus>>

\* the call provider.generate_embeddings(ts) on the records items
CallGenerate(items) ==
    /\ batch' = items
    /\ texts' = ContentsOf(items)
    /\ genCalls' = Append(genCalls, ContentsOf(items))
    /\ pc' = "gen"

(***************************************************************************)
(* main(), lines 164-183: configuration.                                   *)
(***************************************************************************)
MainConfigure ==
    /\ pc = "main"
    /\ LET cfg0 == load_environment(env)
           pname == IF Truthy(args.provider) THEN args.provider
                    ELSE cfg0["AI_PROVIDER"]
           mkey == Upper(pname) \o "_EMBEDDING_MODEL"
           cfg1 == IF Truthy(args.model) THEN (mkey :> args.model) @@ cfg0
                   ELSE cfg0
       IN /\ config' = cfg1
          /\ provider_name' = pname
          /\ batch_size' = IF args.batch_size # <<>> THEN args.batch_size[1]
                           ELSE cfg0["BATCH_SIZE"]
          /\ IF mkey \notin DOMAIN cfg1
             THEN Raise(Exc("KeyError", "key", <<mkey>>))
             ELSE pc' = "create" /\ UNCHANGED <<error, exitStatus>>
    /\ UNCHANGED <<entry, args, env, file, provider, data, path, eff, i, batch,
                   texts, embeddings, k, result, returned, outFile, genCalls,
                   apiCalls, clientInits>>

(***************************************************************************)
(* ProviderFactory.create_provider, called by main (line 186) or directly. *)
(***************************************************************************)
CreateProvider ==
    /\ pc = "create"
    /\ LET r == create_provider(provider_name, config)
       IN IF r.ok
          THEN /\ provider' = r.provider
               /\ pc' = IF entry = "main" THEN "load" ELSE "created"
               /\ UNCHANGED <<error, exitStatus>>
          ELSE /\ Raise(r.error)
               /\ UNCHANGED provider
    /\ UNCHANGED <<entry, args, env, file, config, provider_name, data,
                   batch_size, path, eff, i, batch, texts, embeddings, k,
                   result, returned, outFile, genCalls, apiCalls, clientInits>>

(***************************************************************************)
(* load_json_data, called by main (line 198).                              *)
(***************************************************************************)
LoadData ==
    /\ pc = "load"
    /\ CASE file.kind = "missing" ->
               Raise(Exc("FileNotFoundError", "io", <<"File not found">>))
               /\ UNCHANGED data
         [] file.kind = "bad_json" ->
               Raise(Exc("ValueError", "io", <<"Error decoding JSON">>))
               /\ UNCHANGED data
         [] file.kind = "not_array" ->
               Raise(Exc("ValueError", "io", <<"JSON file must contain an array">>))
               /\ UNCHANGED data
         [] file.kind = "bad_item" ->
               Raise(Exc("ValueError", "io", <<"Item is not a valid record">>))
               /\ UNCHANGED data
         [] file.kind = "array" ->
               /\ data' = file.items
               /\ pc' = "process"
               /\ UNCHANGED <<error, exitStatus>>
    /\ UNCHANGED <<entry, args, env, file, config, provider_name, provider,
                   batch_size, path, eff, i, batch, texts, embeddings, k,
                   result, returned, outFile, genCalls, apiCalls, clientInits>>

(***************************************************************************)
(* process_embeddings, lines 75-113.                                       *)
(***************************************************************************)
\* lines 75-82 and 94-98: the choice of path
ProcessStart ==
    /\ pc = "process"
    /\ IF UseSingleCall(get_model_info(provider), batch_size)
       THEN /\ path' = "single"
            /\ CallGenerate(data)
            /\ UNCHANGED <<eff, i, result>>
       ELSE /\ path' = "batch"
            /\ eff' = EffectiveBatchSize(batch_size)
            /\ result' = <<>>
            /\ i' = 0
            /\ pc' = "loop"
            /\ UNCHANGED <<batch, texts, genCalls>>
    /\ UNCHANGED <<entry, args, env, file, config, provider_name, provider,
                   data, batch_size, embeddings, k, returned, error,
                   exitStatus, outFile, apiCalls, clientInits>>

\* lines 99-105 and 113: the next chunk, or the return after the last one
LoopNext ==
    /\ pc = "loop"
    /\ IF i < Len(data)
       THEN /\ CallGenerate(Slice(data, i, i + eff))
            /\ UNCHANGED <<returned, error, exitStatus>>
       ELSE /\ Return(result)
            /\ UNCHANGED <<batch, texts, genCalls>>
    /\ UNCHANGED <<entry, args, env, file, config, provider_name, provider,
                   data, batch_size, path, eff, i, embeddings, k, result,
                   outFile, apiCalls, clientInits>>

\* mutant of ZipResults: the embedding is set on the caller's record itself
ZipResultsInPlace ==
    /\ pc = "zip"
    /\ data' = [j \in 1..Len(data) |->
                  IF path = "single" /\ j <= Len(embeddings)
                  THEN WithEmbedding(data[j], embeddings[j])
                  ELSE IF path = "batch" /\ j > i /\ j - i <= Len(embeddings)
                  THEN WithEmbedding(data[j], embeddings[j - i])
                  ELSE data[j]]
    /\ IF path = "single"
       THEN /\ result' = ZipRecords(batch, embeddings)
            /\ Return(ZipRecords(batch, embeddings))
            /\ UNCHANGED i
       ELSE /\ result' = result \o ZipRecords(batch, embeddings)
            /\ i' = i + eff
            /\ pc' = "loop"
            /\ UNCHANGED <<returned, error, exitStatus>>
    /\ UNCHANGED <<entry, args, env, file, config, provider_name, provider,
                   batch_size, path, eff, batch, texts, embeddings, k,
                   outFile, genCalls, apiCalls, clientInits>>

\* lines 85-91 and 108-111: the embeddings are zipped onto the records
ZipResults ==
    /\ pc = "zip"
    /\ IF path = "single"
       THEN /\ result' = ZipRecords(batch, embeddings)
            /\ Return(ZipRecords(batch, embeddings))
            /\ UNCHANGED i
       ELSE /\ result' = result \o ZipRecords(batch, embeddings)
            /\ i' = i + eff
            /\ pc' = "loop"
            /\ UNCHANGED <<returned, error, exitStatus>>
    /\ UNCHANGED <<entry, args, env, file, config, provider_name, provider,
                   data, batch_size, path, eff, batch, texts, embeddings, k,
                   outFile, genCalls, apiCalls, clientInits>>

(***************************************************************************)
(* generate_embeddings of the three provider classes.                      *)
(***************************************************************************)
BuiltIn == {"OpenAIProvider", "GeminiProvider", "AnthropicProvider"}

\* the request the provider sends to its API: the generate_embeddings call
\* it belongs to and the texts it carries
Request(input) == [gen |-> Len(genCalls), input |-> input]

\* mutant of ClientInitsAfter: the client is rebuilt on every call
ClientInitsAlways(p, n) == n + 1

\* `if not self._client: self.initialize_client()`: the number of clients
\* built so far, after this statement
ClientInitsAfter(p, n) == IF p.client THEN n ELSE n + 1

\* validate_texts, then the client built on first use (the first four
\* statements of every generate_embeddings)
GenerateStart ==
    /\ pc = "gen"
    /\ provider.cls \in BuiltIn
    /\ LET v == validate_texts(texts)
       IN IF v # NoError
          THEN /\ Raise(v)
               /\ UNCHANGED <<provider, clientInits, embeddings, k>>
          ELSE /\ provider' = [provider EXCEPT !.client = TRUE]
               /\ clientInits' = ClientInitsAfter(provider, clientInits)
               /\ embeddings' = <<>>
               /\ k' = 0
               /\ pc' = "api"
               /\ UNCHANGED <<error, exitStatus>>
    /\ UNCHANGED <<entry, args, env, file, config, provider_name, data,
                   batch_size, path, eff, i, batch, texts, result, returned,
                   outFile, genCalls, apiCalls>>

\* OpenAIProvider.generate_embeddings, lines 35-42: one request for all texts
OpenAIRequest ==
    /\ pc = "api"
    /\ provider.cls = "OpenAIProvider"
    /\ apiCalls' = Append(apiCalls, Request(texts))
    /\ \E outcome \in {"ok", "error"} :
          IF outcome = "ok"
          THEN /\ embeddings' = EmbedAll(texts)
               /\ pc' = "zip"
               /\ UNCHANGED <<error, exitStatus>>
          ELSE /\ Raise(Exc("Exception", "provider", <<"OpenAI">>))
               /\ UNCHANGED embeddings
    /\ UNCHANGED <<entry, args, env, file, config, provider_name, provider,
                   data, batch_size, path, eff, i, batch, texts, k, result,
                   returned, outFile, genCalls, clientInits>>

\* mutant of PerItemRequest: a failed text is skipped and the loop goes on
PerItemRequestSkip(ok, label) ==
    /\ apiCalls' = Append(apiCalls, Request(<<texts[k + 1]>>))
    /\ embeddings' = IF ok THEN Append(embeddings, Embed(texts[k + 1]))
                     ELSE embeddings
    /\ k' = k + 1
    /\ pc' = IF k + 1 = Len(texts) THEN "zip" ELSE "api"
    /\ UNCHANGED <<error, exitStatus>>

\* one iteration of a per-item provider's loop over texts: the request for
\* the next text, its vector appended, the return after the last text
PerItemRequest(ok, label) ==
    /\ apiCalls' = Append(apiCalls, Request(<<texts[k + 1]>>))
    /\ IF ok
       THEN /\ embeddings' = Append(embeddings, Embed(texts[k + 1]))
            /\ k' = k + 1
            /\ pc' = IF k + 1 = Len(texts) THEN "zip" ELSE "api"
            /\ UNCHANGED <<error, exitStatus>>
       ELSE /\ Raise(Exc("Exception", "provider", <<label>>))
            /\ UNCHANGED <<embeddings, k>>

\* GeminiProvider.generate_embeddings, lines 36-61; the answer is an object
\* with embedding.values, a dict with 'embedding', or neither (the fallback
\* then raises, which the except clause wraps like an API error)
GeminiRequest ==
    /\ pc = "api"
    /\ provider.cls = "GeminiProvider"
    /\ k < Len(texts)
    /\ \E outcome \in {"object", "dict", "neither", "error"} :
          PerItemRequest(outcome \in {"object", "dict"}, "Gemini")
    /\ UNCHANGED <<entry, args, env, file, config, provider_name, provider,
                   data, batch_size, path, eff, i, batch, texts, result,
                   returned, outFile, genCalls, clientInits>>

\* AnthropicProvider.generate_embeddings, lines 35-46
AnthropicRequest ==
    /\ pc = "api"
    /\ provider.cls = "AnthropicProvider"
    /\ k < Len(texts)
    /\ \E outcome \in {"ok", "error"} :
          PerItemRequest(outcome = "ok", "Anthropic")
    /\ UNCHANGED <<entry, args, env, file, config, provider_name, provider,
                   data, batch_size, path, eff, i, batch, texts, result,
                   returned, outFile, genCalls, clientInits>>

\* generate_embeddings of a provider class outside the repository, held to
\* BaseProvider's contract: it raises, or returns one vector per text
CustomGenerate ==
    /\ pc = "gen"
    /\ provider.cls = "CustomProvider"
    /\ \E outcome \in {"ok", "error"} :
          IF outcome = "ok"
          THEN /\ embeddings' = EmbedAll(texts)
               /\ pc' = "zip"
               /\ UNCHANGED <<error, exitStatus>>
          ELSE /\ Raise(Exc("Exception", "provider", <<"Custom">>))
               /\ UNCHANGED embeddings
    /\ UNCHANGED <<entry, args, env, file, config, provider_name, provider,
                   data, batch_size, path, eff, i, batch, texts, k, result,
                   returned, outFile, genCalls, apiCalls, clientInits>>

(***************************************************************************)
(* save_json_data, called by main (line 210).                              *)
(***************************************************************************)
SaveData ==
    /\ pc = "save"
    /\ \E outcome \in {"ok", "open_failed", "dump_failed"} :
          CASE outcome = "ok" ->
                  /\ outFile' = [kind |-> "complete", content |-> returned]
                  /\ pc' = "exit"
                  /\ exitStatus' = 0
                  /\ UNCHANGED error
            [] outcome = "open_failed" ->
                  /\ Raise(Exc("Exception", "io", <<"Error saving file">>))
                  /\ UNCHANGED outFile
            [] outcome = "dump_failed" ->
                  /\ Raise(Exc("Exception", "io", <<"Error saving file">>))
                  /\ outFile' = [kind |-> "partial", content |-> <<>>]
    /\ UNCHANGED <<entry, args, env, file, config, provider_name, provider,
                   data, batch_size, path, eff, i, batch, texts, embeddings, k,
                   result, returned, genCalls, apiCalls, clientInits>>

Next ==
    \/ MainConfigure
    \/ CreateProvider
    \/ LoadData
    \/ ProcessStart
    \/ LoopNext
    \/ GenerateStart
    \/ OpenAIRequest
    \/ GeminiRequest
    \/ AnthropicRequest
    \/ CustomGenerate
    \/ ZipResults
    \/ SaveData

Spec == Init /\ [][Next]_vars

(***************************************************************************)
(* Vocabulary of the properties.                                           *)
(***************************************************************************)
\* process_embeddings has returned to its caller
ProcessReturned == pc \in {"returned", "save"}

\* process_embeddings has been entered and has chosen its path
ProcessStarted == path # "none"

HasProvider == provider.cls # "none"

\* the provider advertises unlimited batches and no batch size was requested
SingleCallRule ==
    /\ HasProvider
    /\ "supports_batch" \in DOMAIN get_model_info(provider)
    /\ get_model_info(provider)["supports_batch"] = TRUE
    /\ batch_size = 0

Blank(c) == c \in {"", " "}

Ceil(a, b) == (a + b - 1) \div b

\* the j-th of the consecutive chunks of size e of the input's contents
ChunkContents(j, e) ==
    [h \in 1..(Min(j * e, Len(data)) - (j - 1) * e) |->
        data[(j - 1) * e + h].content]

(***************************************************************************)
(* C1: a process_embeddings call on a non-empty record list that returns   *)
(* yields exactly as many records as it was given, in the same order, and  *)
(* the i-th output record carries the vector the provider produced for the *)
(* i-th input record's content.                                            *)
(***************************************************************************)
C1_OutputAligned ==
    (ProcessReturned /\ Len(data) > 0) =>
        /\ Len(returned) = Len(data)
        /\ \A j \in 1..Len(data) :
              /\ returned[j].content = data[j].content
              /\ returned[j].origin = data[j].origin
              /\ returned[j].embedding = Embed(data[j].content)

\* three records with different contents came back from a run of several chunks
C1_Witness ==
    /\ ProcessReturned
    /\ Len(data) = 3
    /\ data[1].content = "a"
    /\ data[2].content = "b"
    /\ Len(genCalls) >= 2
    /\ Len(returned) = 3

(***************************************************************************)
(* C2: when the provider's model info reports unlimited batch support and  *)
(* the requested batch size is 0, process_embeddings issues exactly one    *)
(* generate_embeddings call, carrying the contents of all records,         *)
(* whatever the length of the record list.                                 *)
(***************************************************************************)
C2_SingleCall ==
    (SingleCallRule /\ pc # "process") =>
        genCalls = <<[j \in 1..Len(data) |-> data[j].content]>>

\* a list longer than the default batch size went through in one call
C2_Witness ==
    /\ SingleCallRule
    /\ ProcessReturned
    /\ Len(data) > DefaultBatchSize
    /\ Len(genCalls) = 1
    /\ Len(returned) = Len(data)

(***************************************************************************)
(* C3: when the single-call rule does not apply, the effective batch size  *)
(* E is the requested size N if N > 0 and 100 otherwise; the records are   *)
(* split into consecutive chunks of E (only the last may be shorter); the  *)
(* provider is called once per chunk, in chunk order, ceil(len/E) times in *)
(* a call that returns, and a chunk's call is made only when the records   *)
(* of all earlier chunks have been completed.                              *)
(***************************************************************************)
C3_Chunking ==
    (ProcessStarted /\ ~SingleCallRule) =>
        LET e == IF batch_size > 0 THEN batch_size ELSE 100
        IN /\ Len(genCalls) <= Ceil(Len(data), e)
           /\ \A j \in 1..Len(genCalls) : genCalls[j] = ChunkContents(j, e)
           /\ pc \in {"gen", "api", "zip"} =>
                 Len(result) = (Len(genCalls) - 1) * e
           /\ ProcessReturned => Len(genCalls) = Ceil(Len(data), e)

\* the default of 100 split 101 records into two calls
C3_Witness ==
    /\ ProcessReturned
    /\ ~SingleCallRule
    /\ batch_size <= 0
    /\ Len(data) = DefaultBatchSize + 1
    /\ Len(genCalls) = 2
    /\ Len(genCalls[1]) = DefaultBatchSize
    /\ Len(genCalls[2]) = 1

(***************************************************************************)
(* C4: for any provider and any requested batch size, process_embeddings   *)
(* on an empty record list returns an empty list, raises no error and      *)
(* makes no generate_embeddings call.                                      *)
(***************************************************************************)
C4_EmptyNoCall ==
    (ProcessStarted /\ Len(data) = 0) =>
        /\ genCalls = <<>>
        /\ error = NoError
        /\ pc \in {"loop", "returned", "save", "exit"}

(***************************************************************************)
(* C5 as stated: if any record, at any position and for any batch size,    *)
(* has an empty or blank content, the run fails with the validation error  *)
(* before any underlying API call has been made for any record.            *)
(***************************************************************************)
HasBlank(ts) == \E j \in 1..Len(ts) : Blank(ts[j])

BuiltInRun == provider.cls \in BuiltIn /\ ProcessStarted

C5_NoCallBeforeValidation ==
    (BuiltInRun /\ HasBlank(ContentsOf(data))) =>
        /\ apiCalls = <<>>
        /\ ~ProcessReturned

(***************************************************************************)
(* C5 amended: with each of the repository's providers, a                  *)
(* generate_embeddings call whose texts include an empty or blank content  *)
(* fails with the validation error before any underlying API call is made  *)
(* for a text of that call, and a run on such an input never returns       *)
(* records; the chunks before the one holding the first blank record are   *)
(* sent to the API before the failure, so that no API call precedes the    *)
(* failure only when the blank record lies in the first chunk.             *)
(***************************************************************************)
C5_ChunkValidated ==
    BuiltInRun =>
        LET e == IF batch_size > 0 THEN batch_size ELSE 100
        IN /\ \A r \in 1..Len(apiCalls) : ~HasBlank(genCalls[apiCalls[r].gen])
           /\ pc = "api" => ~HasBlank(texts)
           /\ HasBlank(ContentsOf(data)) => ~ProcessReturned
           /\ error.kind = "validation" =>
                 /\ pc \in {"raised", "exit"}
                 /\ HasBlank(genCalls[Len(genCalls)])
                 /\ \A r \in 1..Len(apiCalls) : apiCalls[r].gen < Len(genCalls)
           /\ (\E j \in 1..Min(e, Len(data)) : Blank(data[j].content)) =>
                 apiCalls = <<>>

\* the validation error came after requests for an earlier chunk were sent
C5_Witness ==
    /\ BuiltInRun
    /\ error.kind = "validation"
    /\ apiCalls # <<>>
    /\ Len(genCalls) >= 2

(***************************************************************************)
(* C6: a provider call that fails during process_embeddings aborts the     *)
(* whole call: the failure propagates to the caller, no records are        *)
(* returned (not even those of chunks already embedded) and no             *)
(* generate_embeddings call is made for a later chunk.                     *)
(***************************************************************************)
C6_FailureAborts ==
    error.kind = "provider" =>
        /\ pc \in {"raised", "exit"}
        /\ returned = <<>>
        /\ outFile = NoOutFile
        /\ entry = "main" => exitStatus = 1
        /\ path = "batch" => Len(genCalls) = (i \div eff) + 1
        /\ path = "single" => Len(genCalls) = 1

\* the failure came with one chunk already embedded and chunks still to come
C6_Witness ==
    /\ error.kind = "provider"
    /\ path = "batch"
    /\ Len(result) > 0
    /\ i + eff < Len(data)
    /\ returned = <<>>

(***************************************************************************)
(* C7: a run of the script whose provider name is not a registered         *)
(* provider ends with the unsupported-provider error, whose message lists  *)
(* all known provider names, and constructs no provider.                   *)
(***************************************************************************)
C7_UnknownProviderError ==
    (entry = "main" /\ pc = "exit"
        /\ Lower(provider_name) \notin {"openai", "gemini", "anthropic"}) =>
        /\ error.kind = "unsupported"
        /\ error.detail = <<"openai", "gemini", "anthropic">>
        /\ provider = NoProvider

(***************************************************************************)
(* C8: the provider that serves one generate_embeddings call with a single *)
(* request for all texts reports unlimited batch support in its model      *)
(* info, the per-item providers report none, and so a run of the           *)
(* batch-capable provider with batch size 0 takes the single-call path.    *)
(***************************************************************************)
C8_BatchCapabilityReported ==
    (provider.cls \in BuiltIn /\ ProcessStarted) =>
        /\ SupportsBatch(get_model_info(provider))
              <=> provider.cls = "OpenAIProvider"
        /\ (provider.cls = "OpenAIProvider" /\ batch_size = 0)
              => path = "single"

(***************************************************************************)
(* C9: generate_embeddings of a per-item provider on texts t1..tn sends    *)
(* one request per text, in the order t1, t2, ..., tn, and returns the n   *)
(* vectors in that order; when the request for tk fails, no request is     *)
(* sent for tk+1..tn and the call fails without returning the vectors      *)
(* already obtained.                                                       *)
(***************************************************************************)
PerItem == provider.cls \in {"GeminiProvider", "AnthropicProvider"}

\* the requests sent so far by the generate_embeddings call in progress
CurrentRequests == Len(apiCalls) - (Len(genCalls) - 1) * eff

C9_PerItemCalls ==
    (PerItem /\ ProcessStarted) =>
        /\ \A r \in 1..Len(apiCalls) :
              LET g == ((r - 1) \div eff) + 1
                  j == ((r - 1) % eff) + 1
              IN /\ g <= Len(genCalls)
                 /\ j <= Len(genCalls[g])
                 /\ apiCalls[r] = [gen |-> g, input |-> <<genCalls[g][j]>>]
        /\ pc = "api" =>
              /\ CurrentRequests = k
              /\ k < Len(texts)
              /\ embeddings = [j \in 1..k |-> Embed(texts[j])]
        /\ pc = "zip" =>
              /\ CurrentRequests = Len(texts)
              /\ embeddings = [j \in 1..Len(texts) |-> Embed(texts[j])]
        /\ error.kind = "provider" =>
              /\ pc \in {"raised", "exit"}
              /\ CurrentRequests = k + 1
              /\ Len(embeddings) = k

\* the request for the second of three texts failed after the first succeeded
C9_Witness ==
    /\ PerItem
    /\ error.kind = "provider"
    /\ Len(texts) = 3
    /\ k = 1
    /\ Len(apiCalls) = 2
    /\ apiCalls[1].input = <<texts[1]>>
    /\ apiCalls[2].input = <<texts[2]>>

(***************************************************************************)
(* C10: create_provider(name, config) returns a provider exactly when the  *)
(* lower-cased name is registered and config holds non-empty values for    *)
(* <NAME>_API_KEY and <NAME>_EMBEDDING_MODEL; with a registered name and   *)
(* either value missing it fails with the configuration error and builds   *)
(* no provider; for an unregistered name it fails with the                 *)
(* unsupported-provider error whatever the configuration.                  *)
(***************************************************************************)
CreateReturned ==
    /\ entry \in {"main", "create_provider"}
    /\ pc \notin {"main", "create"}
    /\ error.type # "KeyError"

NameRegistered == Lower(provider_name) \in {"openai", "gemini", "anthropic"}

ConfigHolds(suffix) ==
    LET key == Upper(provider_name) \o suffix
    IN key \in DOMAIN config /\ config[key] \notin {None, ""}

C10_CreateProvider ==
    CreateReturned =>
        /\ HasProvider <=>
              /\ NameRegistered
              /\ ConfigHolds("_API_KEY")
              /\ ConfigHolds("_EMBEDDING_MODEL")
        /\ (NameRegistered
              /\ ~(ConfigHolds("_API_KEY") /\ ConfigHolds("_EMBEDDING_MODEL")))
              => error.kind = "configuration"
        /\ ~NameRegistered => error.kind = "unsupported"

\* a registered name, given in mixed case, with its key but an empty model name
C10_Witness ==
    /\ CreateReturned
    /\ provider_name = "OpenAI"
    /\ ConfigHolds("_API_KEY")
    /\ ~ConfigHolds("_EMBEDDING_MODEL")
    /\ error.kind = "configuration"
    /\ ~HasProvider

(***************************************************************************)
(* C11: when loading, provider creation, dispatch or saving fails, the run *)
(* reports the error and exits with a non-zero status, and no output file  *)
(* is written; the output file is written only after process_embeddings    *)
(* has returned successfully for all records.                              *)
(***************************************************************************)
RunFailed == entry = "main" /\ pc = "exit" /\ error # NoError

C11_NoOutputOnFailure ==
    entry = "main" =>
        /\ RunFailed => (exitStatus = 1 /\ outFile = NoOutFile)
        /\ outFile # NoOutFile =>
              /\ pc = "exit"
              /\ Len(returned) = Len(data)
              /\ outFile.content = returned

(***************************************************************************)
(* C12: process_embeddings leaves the caller's input records unchanged (no *)
(* embedding key is added to them and none of their fields changes); each  *)
(* output record holds every field of its input record plus embedding.     *)
(***************************************************************************)
InProcess == pc \in {"process", "loop", "gen", "api", "zip"}

C12_InputUnchanged ==
    [][InProcess =>
          /\ data' = data
          /\ ProcessReturned' =>
                \A j \in 1..Len(returned') :
                   /\ DOMAIN returned'[j] = DOMAIN data[j] \cup {"embedding"}
                   /\ \A f \in DOMAIN data[j] \ {"embedding"} :
                         returned'[j][f] = data[j][f]]_vars

\* a record with an extra field came back with it and with an embedding,
\* while the input record still has none
C12_Witness ==
    /\ ProcessReturned
    /\ Len(returned) = 2
    /\ "id" \in DOMAIN data[1]
    /\ "embedding" \notin DOMAIN data[1]
    /\ returned[1].id = data[1].id
    /\ returned[1].embedding = <<1>>
    /\ data[2].embedding = <<9>>

(***************************************************************************)
(* C13: a provider's API client is not built when the provider is          *)
(* constructed, nor by get_model_info, nor by a generate_embeddings call   *)
(* that fails validation; it is built by the first generate_embeddings     *)
(* call whose texts pass validation, before that call's first request, and *)
(* at most once over any sequence of calls on the same provider.           *)
(***************************************************************************)
\* some generate_embeddings call with valid texts has passed its validation
ValidCallMade ==
    \E g \in 1..Len(genCalls) :
        /\ genCalls[g] # <<>>
        /\ ~HasBlank(genCalls[g])
        /\ g < Len(genCalls) \/ pc # "gen"

C13_LazyClient ==
    provider.cls \in BuiltIn =>
        /\ clientInits <= 1
        /\ provider.client <=> clientInits = 1
        /\ provider.client <=> ValidCallMade
        /\ apiCalls # <<>> => provider.client

\* the second call on a provider found the client of the first call
C13_Witness ==
    /\ provider.cls \in BuiltIn
    /\ Len(genCalls) >= 2
    /\ pc = "api"
    /\ apiCalls[Len(apiCalls)].gen = 1
    /\ provider.client
    /\ clientInits = 1

(***************************************************************************)
(* Providers whose answer need not hold one vector per text: the OpenAI    *)
(* provider returns whatever response.data holds, and a provider class     *)
(* outside the repository returns any list.                                *)
(***************************************************************************)
\* an answer of m vectors for the texts ts
AnswerVectors(ts, m) ==
    [j \in 1..m |-> IF j <= Len(ts) THEN Embed(ts[j]) ELSE <<0>>]

\* OpenAIProvider.generate_embeddings, lines 35-42, with response.data of any
\* length up to one more than the texts sent
OpenAIRequestAnyCount ==
    /\ pc = "api"
    /\ provider.cls = "OpenAIProvider"
    /\ apiCalls' = Append(apiCalls, Request(texts))
    /\ \E m \in -1..(Len(texts) + 1) :
          IF m >= 0
          THEN /\ embeddings' = AnswerVectors(texts, m)
               /\ pc' = "zip"
               /\ UNCHANGED <<error, exitStatus>>
          ELSE /\ Raise(Exc("Exception", "provider", <<"OpenAI">>))
               /\ UNCHANGED embeddings
    /\ UNCHANGED <<entry, args, env, file, config, provider_name, provider,
                   data, batch_size, path, eff, i, batch, texts, k, result,
                   returned, outFile, genCalls, clientInits>>

\* generate_embeddings of a provider class outside the repository that
\* returns a list of any length up to one more than the texts given
CustomGenerateAnyCount ==
    /\ pc = "gen"
    /\ provider.cls = "CustomProvider"
    /\ \E m \in -1..(Len(texts) + 1) :
          IF m >= 0
          THEN /\ embeddings' = AnswerVectors(texts, m)
               /\ pc' = "zip"
               /\ UNCHANGED <<error, exitStatus>>
          ELSE /\ Raise(Exc("Exception", "provider", <<"Custom">>))
               /\ UNCHANGED embeddings
    /\ UNCHANGED <<entry, args, env, file, config, provider_name, provider,
                   data, batch_size, path, eff, i, batch, texts, k, result,
                   returned, outFile, genCalls, apiCalls, clientInits>>

InitAnyCount ==
    /\ InitProcess
    /\ provider.cls \in {"OpenAIProvider", "CustomProvider"}
    /\ data \in ShortData \cup ExtraData
    /\ Locals

NextAnyCount ==
    \/ ProcessStart
    \/ LoopNext
    \/ GenerateStart
    \/ OpenAIRequestAnyCount
    \/ CustomGenerateAnyCount
    \/ ZipResults

SpecAnyCount == InitAnyCount /\ [][NextAnyCount]_vars

(***************************************************************************)
(* C14: every record process_embeddings returns carries an embedding and   *)
(* the output is never longer than the input; when a provider call returns *)
(* fewer vectors than the texts submitted, the surplus records of that     *)
(* call are left out of the output silently: they are not returned without *)
(* an embedding and no error is raised.                                    *)
(***************************************************************************)
C14_SurplusDropped ==
    [][/\ pc = "zip" =>
             LET n == Min(Len(batch), Len(embeddings))
                 base == IF path = "single" THEN 0 ELSE Len(result)
             IN /\ error' = NoError
                /\ pc' \in {"loop", "returned"}
                /\ Len(result') = base + n
                /\ \A j \in 1..n :
                      /\ result'[base + j].content = batch[j].content
                      /\ result'[base + j].embedding = embeddings[j]
                /\ \A j \in 1..base : result'[j] = result[j]
       /\ ProcessReturned' =>
             /\ Len(returned') <= Len(data)
             /\ \A j \in 1..Len(returned') :
                   "embedding" \in DOMAIN returned'[j]]_vars

\* of three records in chunks of two, the second was dropped: the first
\* call answered one vector for two texts
C14_Witness ==
    /\ ProcessReturned
    /\ error = NoError
    /\ Len(data) = 3
    /\ data[2].content # data[3].content
    /\ eff = 2
    /\ Len(returned) = 2
    /\ returned[2].content = data[3].content
    /\ returned[2].embedding = Embed(data[3].content)

====
